---- MODULE Spec2Model ----
(***************************************************************************)
(* The send-email workflow of contact-service.                             *)
(*                                                                         *)
(* The repository holds two alternative EmailService classes: the SMTP     *)
(* one (nodemailer transport, cached per credential id) and the provider   *)
(* API one (OAuth token, account lookup, attachment upload, send request). *)
(* A deployment runs one of them: `variant` is fixed by Init.              *)
(*                                                                         *)
(* Every `await` of sendEmail is a step of its own, so concurrent          *)
(* invocations interleave exactly at the await points; the code that runs  *)
(* between two awaits is one atomic action.                                *)
(*                                                                         *)
(* The database is PostgreSQL reached through a pooled pg client.  A       *)
(* statement either succeeds, is rejected by the server ("err": inside a   *)
(* transaction block the transaction becomes aborted, every later          *)
(* statement is rejected, COMMIT and ROLLBACK both end it by rolling back) *)
(* or fails because the connection is gone ("lost": the server discards    *)
(* the open transaction and every later statement on the client fails).    *)
(* Rows written inside a transaction are visible to others only after its  *)
(* COMMIT.                                                                 *)
(***************************************************************************)
EXTENDS Naturals, Integers, Sequences, FiniteSets, TLC

\* Number of sendEmail invocations made on the one EmailService instance.
MaxCalls == 2

\* Largest number of attachments a message of the model carries.
MaxAttachments == 1

\* Number of verifyConnection invocations made on the EmailService instance.
MaxVerifies == 1

\* Number of HTTP requests the router receives.
MaxRequests == 1

Calls == 1..MaxCalls
Verifies == 1..MaxVerifies
Requests == 1..MaxRequests

\* null where a string is expected, and where an object is expected.
Null == "null"
Nil == [nil |-> TRUE]
Undefined == "undefined"

VARIABLES
    variant,              \* which EmailService class is deployed: "smtp" | "api"
    pc,                   \* per call: the await it is suspended at
    credentialId,         \* per call: argument credentialId
    nAtt,                 \* per call: message.attachments.length
    attDone,              \* per call: attachment inserts / uploads completed
    tx,                   \* per call: transaction of its client: "none" | "open" | "aborted"
    lost,                 \* per call: its client's connection is gone
    held,                 \* per call: it holds a pooled client (connect .. release)
    txRows,               \* per call: outgoing_messages rows written, not yet committed
    txAtts,               \* per call: message_attachments rows written, not yet committed
    messageId,            \* per call: id returned by the INSERT (0 before)
    pending,              \* per call: the error caught, on its way out (Null if none)
    dispatch,             \* per call: "none" | "inflight" | "accepted" | "rejected"
    used,                 \* per call: the transport sendMail was invoked on (Nil if none)
    built,                \* per call: this call constructed a transport
    extCalls,             \* per call: external network calls started so far
    result,               \* per call: what the caller got: Nil | [kind, cause]
    dbFailed,             \* per call: some statement on its client failed
    transporter,          \* EmailService.transporter
    currentCredentialId,  \* EmailService.currentCredentialId
    buildLog,             \* credential ids createTransport was called for, in order
    outgoing_messages,    \* committed (visible) rows of outgoing_messages
    message_attachments,  \* committed (visible) rows of message_attachments
    crashed,              \* the process has crashed
    sends,                \* per call: dispatch calls issued (sendMail / the send request)
    rowUpdates,           \* per call: times an UPDATE changed the status of its row
    failedAt,             \* per call: the first database statement that failed
    vpc,                  \* per verifyConnection call: the await it is suspended at
    vCredentialId,        \* per verifyConnection call: argument credentialId
    testTransporter,      \* per verifyConnection call: its testTransporter (Nil before)
    handshake,            \* per verifyConnection call: verify(): "none" | "inflight" | "ok" | "failed"
    vResult,              \* per verifyConnection call: what the caller got
    rpc,                  \* per HTTP request: the middleware or handler it is in
    req,                  \* per HTTP request: the request as received (Nil before)
    response,             \* per HTTP request: the response sent (Nil before)
    accessToken,          \* per call (provider API): const accessToken (Nil before)
    accountId,            \* per call (provider API): const accountId (Nil before)
    commits,              \* per call: transactions of its client the server committed
    releases,             \* per call: client.release() calls made
    credentials,          \* the rows of table credentials, as mapToCredential maps them
    credentialRow,        \* per call: const credential, what its findById returned
    responses,            \* per HTTP request: responses sent (res.json calls)
    nextCalls             \* per HTTP request: the middleware that called next(), in order

vars == <<variant, pc, credentialId, nAtt, attDone, tx, lost, held, txRows, txAtts,
          messageId, pending, dispatch, used, built, extCalls, result, dbFailed,
          transporter,
          currentCredentialId, buildLog, outgoing_messages, message_attachments,
          crashed, sends, rowUpdates, failedAt,
          vpc, vCredentialId, testTransporter, handshake, vResult,
          rpc, req, response, accessToken, accountId, commits, releases,
          credentials, credentialRow, responses, nextCalls>>

callVars == <<credentialId, nAtt>>
dbVars == <<tx, lost, dbFailed, txRows, txAtts, outgoing_messages, message_attachments,
           rowUpdates, failedAt, commits>>
verifyVars == <<vpc, vCredentialId, testTransporter, handshake, vResult>>
httpVars == <<rpc, req, response, responses, nextCalls>>
cacheVars == <<transporter, currentCredentialId, buildLog>>
tokenVars == <<accessToken, accountId>>

(***************************************************************************)
(* The credential store (table credentials of the auth database) at start, *)
(* as mapToCredential returns its rows.  A missing host is null, a missing    *)
(* port is 0 (both falsy), secure is "true", "false" or undefined.         *)
(***************************************************************************)
Credentials ==
    [ smtpA   |-> [type |-> "email", host |-> "smtp.a", port |-> 587, secure |-> "true",
                   username |-> "userA", password |-> "pwA", name |-> "A"],
      smtpB   |-> [type |-> "email", host |-> "smtp.b", port |-> 25, secure |-> "false",
                   username |-> "userB", password |-> "pwB", name |-> "B"],
      sms     |-> [type |-> "sms", host |-> "sms.gw", port |-> 443, secure |-> "true",
                   username |-> "userS", password |-> "pwS", name |-> "S"],
      nohost  |-> [type |-> "email", host |-> Null, port |-> 587, secure |-> "true",
                   username |-> "userH", password |-> "pwH", name |-> "H"],
      noport  |-> [type |-> "email", host |-> "smtp.p", port |-> 0, secure |-> "true",
                   username |-> "userP", password |-> "pwP", name |-> "P"],
      nosecure |-> [type |-> "email", host |-> "smtp.u", port |-> 587, secure |-> Undefined,
                   username |-> "userU", password |-> "pwU", name |-> "U"] ]

KnownIds == DOMAIN Credentials

\* The credential ids callers pass; "ghost" is stored nowhere.
CredentialIds == KnownIds \cup {"ghost"}

\* CredentialRepository.findById: the mapped row, or null.
findById(id) == IF id \in KnownIds THEN credentials[id] ELSE Nil


(***************************************************************************)
(* Errors.  An error is the message it carries; sendEmail's outer catch    *)
(* wraps it as "Failed to send email: <message>".                          *)
(***************************************************************************)
DbError == "database error"
ConnectError == "connection pool error"
SmtpError == "smtp transport rejected"
NotFound == "Credential not found"
BadType == "Invalid credential type: not an email credential"
Incomplete == "Invalid email credential: missing required SMTP configuration"
LookupError == "Failed to find credential"
TokenError == "Failed to get Zoho access token"
AccountError == "Failed to get Zoho account ID"
UploadError == "Failed to upload attachment"
SendError == "provider send request failed"

Ok == [kind |-> "ok", cause |-> Null]
Wrapped(e) == [kind |-> "wrapped", cause |-> e]
Raw(e) == [kind |-> "raw", cause |-> e]

(***************************************************************************)
(* The database as the pg client sees it.                                  *)
(***************************************************************************)
Faults == {"ok", "err", "lost"}

\* INSERT / UPDATE on call c's client, the environment choosing fault f.
StmtOutcome(c, f) ==
    IF lost[c] \/ f = "lost" THEN "lost"
    ELSE IF tx[c] = "aborted" \/ f = "err" THEN "err"
    ELSE "ok"

\* BEGIN / ROLLBACK: the server accepts them in any transaction state.
ControlOutcome(c, f) == IF lost[c] \/ f = "lost" THEN "lost" ELSE "ok"

\* COMMIT: may be rejected (the transaction is then rolled back), may be lost
\* before the server saw it ("lost") or after it applied it ("lostApplied").
CommitFaults == Faults \cup {"lostApplied"}

CommitOutcome(c, f) ==
    IF lost[c] THEN "lost"
    ELSE IF f \in {"lost", "lostApplied"} THEN f
    ELSE IF tx[c] = "open" /\ f = "err" THEN "err"
    ELSE "ok"

\* failedAt of a call none of whose statements has failed.
NoFault == [stage |-> "none", fault |-> "ok"]

\* failedAt once the statement call c awaits at pc[c] has ended with outcome o.
FirstFault(c, o) ==
    [failedAt EXCEPT ![c] = IF @ = NoFault /\ o # "ok"
                            THEN [stage |-> pc[c], fault |-> o] ELSE @]

\* A failed statement: the transaction is aborted (server error) or gone with
\* the connection; either way nothing it wrote can become visible.
StmtFails(c, o) ==
    /\ lost' = [lost EXCEPT ![c] = (o = "lost")]
    /\ dbFailed' = [dbFailed EXCEPT ![c] = TRUE]
    /\ failedAt' = FirstFault(c, o)
    /\ UNCHANGED <<rowUpdates, commits>>
    /\ tx' = [tx EXCEPT ![c] = IF o = "lost" THEN "none"
                               ELSE IF @ = "open" THEN "aborted" ELSE @]
    /\ txRows' = [txRows EXCEPT ![c] = {}]
    /\ txAtts' = [txAtts EXCEPT ![c] = 0]
    /\ UNCHANGED <<outgoing_messages, message_attachments>>

\* UPDATE outgoing_messages SET <set> WHERE id = <id>, applied to a set of rows.
UpdateRowsEveryRow(rows, id, status, sentAt, errorMessage) ==
    { [r EXCEPT !.status = status,
                !.sent_at = IF sentAt THEN TRUE ELSE @,
                !.error_message = IF errorMessage # Null THEN errorMessage ELSE @]
      : r \in rows }

UpdateRowsStatusOnly(rows, id, status, sentAt, errorMessage) ==
    { IF r.id = id THEN [r EXCEPT !.status = status] ELSE r : r \in rows }

UpdateRows(rows, id, status, sentAt, errorMessage) ==
    { IF r.id = id
      THEN [r EXCEPT !.status = status,
                     !.sent_at = IF sentAt THEN TRUE ELSE @,
                     !.error_message = IF errorMessage # Null THEN errorMessage ELSE @]
      ELSE r : r \in rows }

\* A successful UPDATE: inside the open transaction it changes the rows the
\* transaction sees (its own uncommitted row); outside one it is autocommitted.
UpdateOk(c, status, sentAt, errorMessage) ==
    /\ IF tx[c] = "open"
       THEN /\ txRows' = [txRows EXCEPT
                    ![c] = UpdateRows(@, messageId[c], status, sentAt, errorMessage)]
            /\ rowUpdates' = [rowUpdates EXCEPT
                    ![c] = @ + Cardinality({ r \in txRows[c] : r.id = messageId[c] })]
            /\ UNCHANGED outgoing_messages
       ELSE /\ outgoing_messages' =
                    UpdateRows(outgoing_messages, messageId[c], status, sentAt, errorMessage)
            /\ rowUpdates' = [rowUpdates EXCEPT
                    ![c] = @ + Cardinality({ r \in outgoing_messages : r.id = messageId[c] })]
            /\ UNCHANGED txRows
    /\ UNCHANGED <<tx, lost, dbFailed, failedAt, commits, txAtts, message_attachments>>

\* A successful INSERT of row r: pending in the open transaction, or
\* autocommitted when the client is in none.
InsertOk(c, r) ==
    /\ IF tx[c] = "open"
       THEN /\ txRows' = [txRows EXCEPT ![c] = @ \cup {r}]
            /\ UNCHANGED outgoing_messages
       ELSE /\ outgoing_messages' = outgoing_messages \cup {r}
            /\ UNCHANGED txRows
    /\ UNCHANGED <<tx, lost, dbFailed, rowUpdates, failedAt, commits, txAtts, message_attachments>>

\* The attachment rows a transaction of call c wrote.
AttachmentRows(c) == { [message_id |-> messageId[c], n |-> i] : i \in 1..txAtts[c] }

\* COMMIT applied by the server: what the transaction wrote becomes visible.
CommitApplied(c) ==
    /\ outgoing_messages' = outgoing_messages \cup
            (IF tx[c] = "open" THEN txRows[c] ELSE {})
    /\ message_attachments' = message_attachments \cup
            (IF tx[c] = "open" THEN AttachmentRows(c) ELSE {})
    /\ commits' = [commits EXCEPT ![c] = IF tx[c] = "open" THEN @ + 1 ELSE @]
    /\ tx' = [tx EXCEPT ![c] = "none"]
    /\ txRows' = [txRows EXCEPT ![c] = {}]
    /\ txAtts' = [txAtts EXCEPT ![c] = 0]

\* The effect of COMMIT with outcome o.
CommitEffect(c, o) ==
    /\ failedAt' = FirstFault(c, o)
    /\ UNCHANGED rowUpdates
    /\ IF o \in {"ok", "lostApplied"}
       THEN /\ CommitApplied(c)
            /\ lost' = [lost EXCEPT ![c] = (o = "lostApplied")]
            /\ dbFailed' = [dbFailed EXCEPT ![c] = @ \/ o = "lostApplied"]
       ELSE /\ tx' = [tx EXCEPT ![c] = "none"]
            /\ txRows' = [txRows EXCEPT ![c] = {}]
            /\ txAtts' = [txAtts EXCEPT ![c] = 0]
            /\ lost' = [lost EXCEPT ![c] = (o = "lost")]
            /\ dbFailed' = [dbFailed EXCEPT ![c] = TRUE]
            /\ UNCHANGED <<commits, outgoing_messages, message_attachments>>

\* ROLLBACK, or the server discarding the transaction of a lost connection.
RollbackEffect(c, o) ==
    /\ tx' = [tx EXCEPT ![c] = "none"]
    /\ txRows' = [txRows EXCEPT ![c] = {}]
    /\ txAtts' = [txAtts EXCEPT ![c] = 0]
    /\ lost' = [lost EXCEPT ![c] = (o = "lost")]
    /\ dbFailed' = [dbFailed EXCEPT ![c] = @ \/ o = "lost"]
    /\ failedAt' = FirstFault(c, o)
    /\ UNCHANGED <<rowUpdates, commits, outgoing_messages, message_attachments>>

Init ==
    /\ variant \in {"smtp", "api"}
    /\ pc = [c \in Calls |-> "idle"]
    /\ credentialId = [c \in Calls |-> Null]
    /\ nAtt = [c \in Calls |-> 0]
    /\ attDone = [c \in Calls |-> 0]
    /\ tx = [c \in Calls |-> "none"]
    /\ lost = [c \in Calls |-> FALSE]
    /\ held = [c \in Calls |-> FALSE]
    /\ txRows = [c \in Calls |-> {}]
    /\ txAtts = [c \in Calls |-> 0]
    /\ messageId = [c \in Calls |-> 0]
    /\ pending = [c \in Calls |-> Null]
    /\ dispatch = [c \in Calls |-> "none"]
    /\ used = [c \in Calls |-> Nil]
    /\ built = [c \in Calls |-> FALSE]
    /\ extCalls = [c \in Calls |-> 0]
    /\ result = [c \in Calls |-> Nil]
    /\ dbFailed = [c \in Calls |-> FALSE]
    /\ transporter = Nil
    /\ currentCredentialId = Null
    /\ buildLog = <<>>
    /\ outgoing_messages = {}
    /\ message_attachments = {}
    /\ crashed = FALSE
    /\ sends = [c \in Calls |-> 0]
    /\ rowUpdates = [c \in Calls |-> 0]
    /\ failedAt = [c \in Calls |-> NoFault]
    /\ vpc = [v \in Verifies |-> "idle"]
    /\ vCredentialId = [v \in Verifies |-> Null]
    /\ testTransporter = [v \in Verifies |-> Nil]
    /\ handshake = [v \in Verifies |-> "none"]
    /\ vResult = [v \in Verifies |-> Nil]
    /\ rpc = [r \in Requests |-> "none"]
    /\ req = [r \in Requests |-> Nil]
    /\ response = [r \in Requests |-> Nil]
    /\ accessToken = [c \in Calls |-> Nil]
    /\ accountId = [c \in Calls |-> Nil]
    /\ commits = [c \in Calls |-> 0]
    /\ releases = [c \in Calls |-> 0]
    /\ credentials = Credentials
    /\ credentialRow = [c \in Calls |-> Nil]
    /\ responses = [r \in Requests |-> 0]
    /\ nextCalls = [r \in Requests |-> <<>>]

(***************************************************************************)
(* Steps shared by the two sendEmail implementations.                      *)
(***************************************************************************)

\* The error reaches the outer catch, which issues ROLLBACK.
ToOuterCatch(c, e) ==
    /\ pending' = [pending EXCEPT ![c] = e]
    /\ pc' = [pc EXCEPT ![c] = "rollback"]

\* finally { client.release() } and the call returns or throws r.
FinishKeepsClient(c, r) ==
    /\ UNCHANGED <<held, releases>>
    /\ result' = [result EXCEPT ![c] = r]
    /\ pc' = [pc EXCEPT ![c] = "done"]

Finish(c, r) ==
    /\ held' = [held EXCEPT ![c] = FALSE]
    /\ releases' = [releases EXCEPT ![c] = @ + 1]
    /\ result' = [result EXCEPT ![c] = r]
    /\ pc' = [pc EXCEPT ![c] = "done"]

\* sendEmail(credentialId, message) is called and awaits this.db.connect().
Called(c, id, n) ==
    /\ pc[c] = "idle"
    /\ credentialId' = [credentialId EXCEPT ![c] = id]
    /\ nAtt' = [nAtt EXCEPT ![c] = n]
    /\ pc' = [pc EXCEPT ![c] = "connect"]
    /\ UNCHANGED <<variant, credentials, credentialRow, releases, tokenVars, sends, attDone, dbVars, held, messageId, pending, dispatch,
                   used, built, extCalls, result, cacheVars, crashed>>

\* sendEmail called by a caller of the EmailService instance.
Invoke(c, id, n) ==
    /\ ~crashed
    /\ Called(c, id, n)
    /\ UNCHANGED <<verifyVars, httpVars>>

\* this.db.connect() settles.  It is awaited outside the try block: a
\* rejection leaves sendEmail as it is, no ROLLBACK and no release.
Connect(c, ok) ==
    /\ ~crashed
    /\ pc[c] = "connect"
    /\ IF ok
       THEN /\ held' = [held EXCEPT ![c] = TRUE]
            /\ pc' = [pc EXCEPT ![c] = "begin"]
            /\ UNCHANGED result
       ELSE /\ result' = [result EXCEPT ![c] = Raw(ConnectError)]
            /\ pc' = [pc EXCEPT ![c] = "done"]
            /\ UNCHANGED held
    /\ UNCHANGED <<variant, credentials, credentialRow, releases, tokenVars, verifyVars, httpVars, sends, callVars, attDone, dbVars, messageId, pending, dispatch,
                   used, built, extCalls, cacheVars, crashed>>

\* The transaction state a successful BEGIN leaves the client in.
BeginNotIssued == "none"
TxAfterBegin == "open"

\* The statement awaited after BEGIN: the INSERT of the message row.
AfterBeginSkipsInsert == "lookup"
AfterBegin == "insert"

\* client.query('BEGIN') settles.
Begin(c, f) ==
    /\ ~crashed
    /\ pc[c] = "begin"
    /\ LET o == ControlOutcome(c, f) IN
       IF o = "ok"
       THEN /\ tx' = [tx EXCEPT ![c] = TxAfterBegin]
            /\ pc' = [pc EXCEPT ![c] = AfterBegin]
            /\ UNCHANGED <<lost, dbFailed, rowUpdates, failedAt, commits, txRows, txAtts,
                           outgoing_messages, message_attachments, pending>>
       ELSE /\ StmtFails(c, o)
            /\ ToOuterCatch(c, DbError)
    /\ UNCHANGED <<variant, credentials, credentialRow, releases, tokenVars, verifyVars, httpVars, sends, callVars, attDone, held, messageId, dispatch, used, built,
                   extCalls, result, cacheVars, crashed>>

\* The row INSERT INTO outgoing_messages ... 'pending' RETURNING id writes.
PendingRow(c) ==
    [id |-> c, credential_id |-> credentialId[c], status |-> "pending",
     sent_at |-> FALSE, error_message |-> Null]

\* The await after a successful INSERT of the message row.
AfterInsert(c) ==
    IF variant = "smtp" /\ nAtt[c] > 0 THEN "attach" ELSE "lookup"

\* The INSERT of the pending row settles; messageId = insertResult.rows[0].id.
Insert(c, f) ==
    /\ ~crashed
    /\ pc[c] = "insert"
    /\ LET o == StmtOutcome(c, f) IN
       IF o = "ok"
       THEN /\ InsertOk(c, PendingRow(c))
            /\ messageId' = [messageId EXCEPT ![c] = c]
            /\ pc' = [pc EXCEPT ![c] = AfterInsert(c)]
            /\ UNCHANGED pending
       ELSE /\ StmtFails(c, o)
            /\ ToOuterCatch(c, DbError)
            /\ UNCHANGED messageId
    /\ UNCHANGED <<variant, credentials, credentialRow, releases, tokenVars, verifyVars, httpVars, sends, callVars, attDone, held, dispatch, used, built, extCalls,
                   result, cacheVars, crashed>>

\* client.query('ROLLBACK') of the outer catch settles; then the wrapped
\* error is thrown, or the ROLLBACK's own rejection leaves the catch block
\* unwrapped; finally releases the client.
Rollback(c, f) ==
    /\ ~crashed
    /\ pc[c] = "rollback"
    /\ LET o == ControlOutcome(c, f) IN
       /\ RollbackEffect(c, o)
       /\ Finish(c, IF o = "ok" THEN Wrapped(pending[c]) ELSE Raw(DbError))
    /\ UNCHANGED <<variant, credentials, credentialRow, tokenVars, verifyVars, httpVars, sends, callVars, attDone, messageId, pending, dispatch, used,
                   built, extCalls, cacheVars, crashed>>

(***************************************************************************)
(* The SMTP implementation of sendEmail.                                   *)
(***************************************************************************)

\* A successful INSERT INTO message_attachments.  It is issued on the call's
\* own client (client.query), so the row belongs to the open transaction; a
\* statement issued through the pool (this.db.query) would be autocommitted.
AttachmentInsertOnPool(c) ==
    /\ message_attachments' = message_attachments \cup
            {[message_id |-> messageId[c], n |-> attDone[c] + 1]}
    /\ UNCHANGED txAtts

AttachmentInsertOk(c) ==
    IF tx[c] = "open"
    THEN /\ txAtts' = [txAtts EXCEPT ![c] = @ + 1]
         /\ UNCHANGED message_attachments
    ELSE /\ message_attachments' = message_attachments \cup
                 {[message_id |-> messageId[c], n |-> attDone[c] + 1]}
         /\ UNCHANGED txAtts

\* One INSERT INTO message_attachments of the loop settles.
InsertAttachment(c, f) ==
    /\ ~crashed
    /\ variant = "smtp"
    /\ pc[c] = "attach"
    /\ LET o == StmtOutcome(c, f) IN
       IF o = "ok"
       THEN /\ AttachmentInsertOk(c)
            /\ attDone' = [attDone EXCEPT ![c] = @ + 1]
            /\ pc' = [pc EXCEPT ![c] = IF attDone[c] + 1 = nAtt[c] THEN "lookup" ELSE "attach"]
            /\ UNCHANGED <<tx, lost, dbFailed, rowUpdates, failedAt, commits, txRows,
                           outgoing_messages, pending>>
       ELSE /\ StmtFails(c, o)
            /\ ToOuterCatch(c, DbError)
            /\ UNCHANGED attDone
    /\ UNCHANGED <<variant, credentials, credentialRow, releases, tokenVars, verifyVars, httpVars, sends, callVars, held, messageId, dispatch, used, built, extCalls,
                   result, cacheVars, crashed>>

\* The three checks on the looked-up credential: the error thrown, or Null.
CredentialErrorNoTypeCheck(credential) ==
    IF credential = Nil THEN NotFound
    ELSE IF credential.host = Null \/ credential.port = 0
            \/ credential.secure = Undefined THEN Incomplete
    ELSE Null

CredentialError(credential) ==
    IF credential = Nil THEN NotFound
    ELSE IF credential.type # "email" THEN BadType
    ELSE IF credential.host = Null \/ credential.port = 0
            \/ credential.secure = Undefined THEN Incomplete
    ELSE Null

\* if (this.currentCredentialId !== credentialId)
NeedsNewTransportOnlyFirst(id) == transporter = Nil
NeedsNewTransport(id) == currentCredentialId # id

\* nodemailer.createTransport({host, port, secure, auth}) for credential id.
createTransport(id, credential) ==
    [credentialId |-> id, host |-> credential.host, port |-> credential.port,
     secure |-> credential.secure, user |-> credential.username,
     pass |-> credential.password]

\* this.currentCredentialId after the "create or update transporter" block.
CachedIdNeverSet(id) == currentCredentialId
CachedIdAfter(id) == IF NeedsNewTransport(id) THEN id ELSE currentCredentialId

\* The cached transporter after the "create or update transporter" block.
ResolvedTransport(id, credential) ==
    IF NeedsNewTransport(id) THEN createTransport(id, credential) ELSE transporter

\* credentialRepository.findById settles.  Everything up to the next await
\* runs in one turn of the event loop: the checks, the transporter block and
\* the call this.transporter.sendMail(...).
FindById(c, ok) ==
    /\ ~crashed
    /\ variant = "smtp"
    /\ pc[c] = "lookup"
    /\ credentialRow' = [credentialRow EXCEPT
            ![c] = IF ok THEN findById(credentialId[c]) ELSE @]
    /\ LET id == credentialId[c]
           credential == findById(id)
           e == IF ok THEN CredentialError(credential) ELSE LookupError
       IN
       IF e # Null
       THEN /\ ToOuterCatch(c, e)
            /\ UNCHANGED <<cacheVars, dispatch, sends, used, built, extCalls>>
       ELSE /\ transporter' = ResolvedTransport(id, credential)
            /\ currentCredentialId' = CachedIdAfter(id)
            /\ buildLog' = IF NeedsNewTransport(id) THEN Append(buildLog, id) ELSE buildLog
            /\ built' = [built EXCEPT ![c] = NeedsNewTransport(id)]
            /\ used' = [used EXCEPT ![c] = transporter']
            /\ dispatch' = [dispatch EXCEPT ![c] = "inflight"]
            /\ sends' = [sends EXCEPT ![c] = @ + 1]
            /\ extCalls' = [extCalls EXCEPT ![c] = @ + 1]
            /\ pc' = [pc EXCEPT ![c] = "sending"]
            /\ UNCHANGED pending
    /\ UNCHANGED <<variant, credentials, releases, tokenVars, verifyVars, httpVars, callVars, attDone, dbVars, held, messageId, result, crashed>>

\* Where sendEmail continues when the awaited sendMail settles: the UPDATE to
\* 'sent' of the try block, or the UPDATE to 'failed' of the inner catch.
AfterSendMailNotAwaited(accepted) == "updSent"
AfterSendMailRetries(accepted) == IF accepted THEN "updSent" ELSE "lookup"
AfterSendMailSkipsUpdate(accepted) == IF accepted THEN "commit" ELSE "updFailed"
AfterSendMail(accepted) == IF accepted THEN "updSent" ELSE "updFailed"

\* this.transporter.sendMail settles.  Accepted: the UPDATE to 'sent' is
\* issued.  Rejected: the inner catch issues the UPDATE to 'failed'.
SendMailDone(c, accepted) ==
    /\ ~crashed
    /\ variant = "smtp"
    /\ pc[c] = "sending"
    /\ dispatch' = [dispatch EXCEPT ![c] = IF accepted THEN "accepted" ELSE "rejected"]
    /\ pending' = [pending EXCEPT ![c] = IF accepted THEN @ ELSE SmtpError]
    /\ pc' = [pc EXCEPT ![c] = AfterSendMail(accepted)]
    /\ UNCHANGED <<variant, credentials, credentialRow, releases, tokenVars, verifyVars, httpVars, sends, callVars, attDone, dbVars, held, messageId, used, built,
                   extCalls, result, cacheVars, crashed>>

\* The statement awaited after the UPDATE to 'sent' has succeeded: COMMIT.
\* (The UPDATE to 'failed' is issued by the inner catch only.)
AfterUpdateSentFallsThrough == "updFailed"
AfterUpdateSent == "commit"

\* UPDATE ... SET status = 'sent', sent_at = CURRENT_TIMESTAMP settles; a
\* rejection is caught by the inner catch like a failed sendMail.
UpdateSent(c, f) ==
    /\ ~crashed
    /\ variant = "smtp"
    /\ pc[c] = "updSent"
    /\ LET o == StmtOutcome(c, f) IN
       IF o = "ok"
       THEN /\ UpdateOk(c, "sent", TRUE, Null)
            /\ pc' = [pc EXCEPT ![c] = AfterUpdateSent]
            /\ UNCHANGED pending
       ELSE /\ StmtFails(c, o)
            /\ pending' = [pending EXCEPT ![c] = DbError]
            /\ pc' = [pc EXCEPT ![c] = "updFailed"]
    /\ UNCHANGED <<variant, credentials, credentialRow, releases, tokenVars, verifyVars, httpVars, sends, callVars, attDone, held, messageId, dispatch, used, built,
                   extCalls, result, cacheVars, crashed>>

\* COMMIT of the success path settles; a rejection is caught by the inner catch.
Commit(c, f) ==
    /\ ~crashed
    /\ variant = "smtp"
    /\ pc[c] = "commit"
    /\ LET o == CommitOutcome(c, f) IN
       /\ CommitEffect(c, o)
       /\ IF o = "ok"
          THEN /\ Finish(c, Ok)
               /\ UNCHANGED pending
          ELSE /\ pending' = [pending EXCEPT ![c] = DbError]
               /\ pc' = [pc EXCEPT ![c] = "updFailed"]
               /\ UNCHANGED <<held, releases, result>>
    /\ UNCHANGED <<variant, credentials, credentialRow, tokenVars, verifyVars, httpVars, sends, callVars, attDone, messageId, dispatch, used, built,
                   extCalls, cacheVars, crashed>>

\* UPDATE ... SET status = 'failed', error_message = $2 of the inner catch
\* settles; its rejection replaces the caught error on the way out.
UpdateFailed(c, f) ==
    /\ ~crashed
    /\ variant = "smtp"
    /\ pc[c] = "updFailed"
    /\ LET o == StmtOutcome(c, f) IN
       IF o = "ok"
       THEN /\ UpdateOk(c, "failed", FALSE, pending[c])
            /\ pc' = [pc EXCEPT ![c] = "commitFailed"]
            /\ UNCHANGED pending
       ELSE /\ StmtFails(c, o)
            /\ ToOuterCatch(c, DbError)
    /\ UNCHANGED <<variant, credentials, credentialRow, releases, tokenVars, verifyVars, httpVars, sends, callVars, attDone, held, messageId, dispatch, used, built,
                   extCalls, result, cacheVars, crashed>>

\* What the COMMIT of the inner catch does to the database.
InnerCatchRollsBack(c, o) == RollbackEffect(c, IF o = "ok" THEN "ok" ELSE "lost")
InnerCatchCommit(c, o) == CommitEffect(c, o)

\* COMMIT of the inner catch settles; then `throw error` (or the COMMIT's own
\* rejection) reaches the outer catch.
CommitFailed(c, f) ==
    /\ ~crashed
    /\ variant = "smtp"
    /\ pc[c] = "commitFailed"
    /\ LET o == CommitOutcome(c, f) IN
       /\ InnerCatchCommit(c, o)
       /\ ToOuterCatch(c, IF o = "ok" THEN pending[c] ELSE DbError)
    /\ UNCHANGED <<variant, credentials, credentialRow, releases, tokenVars, verifyVars, httpVars, sends, callVars, attDone, held, messageId, dispatch, used, built,
                   extCalls, result, cacheVars, crashed>>

(***************************************************************************)
(* The provider-API implementation of sendEmail.                           *)
(***************************************************************************)

\* credentialRepository.findById settles; only a missing credential is
\* refused, then getZohoAccessToken posts to the token endpoint.
ApiFindById(c, ok) ==
    /\ ~crashed
    /\ variant = "api"
    /\ pc[c] = "lookup"
    /\ credentialRow' = [credentialRow EXCEPT
            ![c] = IF ok THEN findById(credentialId[c]) ELSE @]
    /\ LET credential == findById(credentialId[c])
           e == IF ~ok THEN LookupError
                ELSE IF credential = Nil THEN NotFound ELSE Null
       IN
       IF e # Null
       THEN /\ ToOuterCatch(c, e)
            /\ UNCHANGED extCalls
       ELSE /\ pc' = [pc EXCEPT ![c] = "token"]
            /\ extCalls' = [extCalls EXCEPT ![c] = @ + 1]
            /\ UNCHANGED pending
    /\ UNCHANGED <<variant, credentials, releases, tokenVars, verifyVars, httpVars, sends, callVars, attDone, dbVars, held, messageId, dispatch, used,
                   built, result, cacheVars, crashed>>

\* The access token the token endpoint issues in answer to call c's exchange
\* (response.data.access_token): every exchange gets a token of its own.
IssuedToken(c) == [exchange |-> c]

\* What getZohoAccessToken returns to call c: the token of the exchange it
\* has just made.  The class has no field that keeps a token.
getZohoAccessTokenCached(c) ==
    IF \E d \in Calls : accessToken[d] # Nil
    THEN accessToken[CHOOSE d \in Calls : accessToken[d] # Nil]
    ELSE IssuedToken(c)
getZohoAccessToken(c) == IssuedToken(c)

\* What getZohoAccountId returns to call c: the first account the accounts
\* endpoint lists for the bearer token of the request.
getZohoAccountId(c, token) == [lookup |-> c, bearer |-> token]

\* The token request settles; then getZohoAccountId gets the account list.
ApiToken(c, ok) ==
    /\ ~crashed
    /\ variant = "api"
    /\ pc[c] = "token"
    /\ IF ok
       THEN /\ accessToken' = [accessToken EXCEPT ![c] = getZohoAccessToken(c)]
            /\ pc' = [pc EXCEPT ![c] = "account"]
            /\ extCalls' = [extCalls EXCEPT ![c] = @ + 1]
            /\ UNCHANGED pending
       ELSE /\ ToOuterCatch(c, TokenError)
            /\ UNCHANGED <<extCalls, accessToken>>
    /\ UNCHANGED <<variant, credentials, credentialRow, releases, accountId, verifyVars, httpVars, sends, callVars, attDone, dbVars, held, messageId, dispatch, used,
                   built, result, cacheVars, crashed>>

\* The account request settles.  With attachments all uploads are started at
\* once (Promise.all over map); without, the send request is posted.
ApiAccount(c, ok) ==
    /\ ~crashed
    /\ variant = "api"
    /\ pc[c] = "account"
    /\ accountId' = [accountId EXCEPT
            ![c] = IF ok THEN getZohoAccountId(c, accessToken[c]) ELSE @]
    /\ IF ~ok
       THEN /\ ToOuterCatch(c, AccountError)
            /\ UNCHANGED <<extCalls, dispatch, sends>>
       ELSE IF nAtt[c] > 0
       THEN /\ pc' = [pc EXCEPT ![c] = "upload"]
            /\ extCalls' = [extCalls EXCEPT ![c] = @ + nAtt[c]]
            /\ UNCHANGED <<pending, dispatch, sends>>
       ELSE /\ pc' = [pc EXCEPT ![c] = "send"]
            /\ extCalls' = [extCalls EXCEPT ![c] = @ + 1]
            /\ dispatch' = [dispatch EXCEPT ![c] = "inflight"]
            /\ sends' = [sends EXCEPT ![c] = @ + 1]
            /\ UNCHANGED pending
    /\ UNCHANGED <<variant, credentials, credentialRow, releases, accessToken, verifyVars, httpVars, callVars, attDone, dbVars, held, messageId, used, built,
                   result, cacheVars, crashed>>

\* One upload settles.  The first rejection rejects Promise.all; when the
\* last one is fulfilled the send request is posted.
ApiUpload(c, ok) ==
    /\ ~crashed
    /\ variant = "api"
    /\ pc[c] = "upload"
    /\ IF ~ok
       THEN /\ ToOuterCatch(c, UploadError)
            /\ UNCHANGED <<attDone, extCalls, dispatch, sends>>
       ELSE /\ attDone' = [attDone EXCEPT ![c] = @ + 1]
            /\ IF attDone[c] + 1 = nAtt[c]
               THEN /\ pc' = [pc EXCEPT ![c] = "send"]
                    /\ extCalls' = [extCalls EXCEPT ![c] = @ + 1]
                    /\ dispatch' = [dispatch EXCEPT ![c] = "inflight"]
                    /\ sends' = [sends EXCEPT ![c] = @ + 1]
               ELSE UNCHANGED <<pc, extCalls, dispatch, sends>>
            /\ UNCHANGED pending
    /\ UNCHANGED <<variant, credentials, credentialRow, releases, tokenVars, verifyVars, httpVars, callVars, dbVars, held, messageId, used, built, result,
                   cacheVars, crashed>>

\* The send request settles.  There is no inner catch: a rejection goes
\* straight to the outer catch.
ApiSend(c, accepted) ==
    /\ ~crashed
    /\ variant = "api"
    /\ pc[c] = "send"
    /\ dispatch' = [dispatch EXCEPT ![c] = IF accepted THEN "accepted" ELSE "rejected"]
    /\ IF accepted
       THEN /\ pc' = [pc EXCEPT ![c] = "updSent"]
            /\ UNCHANGED pending
       ELSE ToOuterCatch(c, SendError)
    /\ UNCHANGED <<variant, credentials, credentialRow, releases, tokenVars, verifyVars, httpVars, sends, callVars, attDone, dbVars, held, messageId, used, built,
                   extCalls, result, cacheVars, crashed>>

\* UPDATE ... SET status = 'sent' settles.
ApiUpdateSent(c, f) ==
    /\ ~crashed
    /\ variant = "api"
    /\ pc[c] = "updSent"
    /\ LET o == StmtOutcome(c, f) IN
       IF o = "ok"
       THEN /\ UpdateOk(c, "sent", TRUE, Null)
            /\ pc' = [pc EXCEPT ![c] = "commit"]
            /\ UNCHANGED pending
       ELSE /\ StmtFails(c, o)
            /\ ToOuterCatch(c, DbError)
    /\ UNCHANGED <<variant, credentials, credentialRow, releases, tokenVars, verifyVars, httpVars, sends, callVars, attDone, held, messageId, dispatch, used, built,
                   extCalls, result, cacheVars, crashed>>

\* COMMIT settles.
ApiCommit(c, f) ==
    /\ ~crashed
    /\ variant = "api"
    /\ pc[c] = "commit"
    /\ LET o == CommitOutcome(c, f) IN
       /\ CommitEffect(c, o)
       /\ IF o = "ok"
          THEN /\ Finish(c, Ok)
               /\ UNCHANGED pending
          ELSE /\ ToOuterCatch(c, DbError)
               /\ UNCHANGED <<held, releases, result>>
    /\ UNCHANGED <<variant, credentials, credentialRow, tokenVars, verifyVars, httpVars, sends, callVars, attDone, messageId, dispatch, used, built,
                   extCalls, cacheVars, crashed>>

(***************************************************************************)
(* verifyConnection, the same in both EmailService classes.                *)
(***************************************************************************)
HandshakeError == "smtp handshake failed"

\* What verifyConnection gives its caller: true, or the error thrown by the
\* catch around verify().  The code has no `return false`.
VTrue == [kind |-> "true", cause |-> Null]
VFalse == [kind |-> "false", cause |-> Null]
VerifyFailed(e) == [kind |-> "verifyFailed", cause |-> e]

\* verifyConnection(credentialId) is called and awaits findById.
VerifyCalled(v, id) ==
    /\ vpc[v] = "idle"
    /\ vCredentialId' = [vCredentialId EXCEPT ![v] = id]
    /\ vpc' = [vpc EXCEPT ![v] = "lookup"]
    /\ UNCHANGED <<testTransporter, handshake, vResult>>

\* verifyConnection called by a caller of the EmailService instance.
VerifyInvoke(v, id) ==
    /\ ~crashed
    /\ VerifyCalled(v, id)
    /\ UNCHANGED <<variant, credentials, credentialRow, releases, tokenVars, httpVars, sends, callVars, attDone, dbVars, held, messageId,
                   pending, dispatch, used, built, extCalls, result, cacheVars, pc,
                   crashed>>

\* this.transporter after verifyConnection has built its transport: the
\* transport goes to the local const testTransporter, the field is not assigned.
TransporterAfterVerifyCached(id, credential) == createTransport(id, credential)
TransporterAfterVerify(id, credential) == transporter

\* credentialRepository.findById settles.  The three checks, createTransport
\* and the call testTransporter.verify() run in one turn of the event loop.
VerifyFindById(v, ok) ==
    /\ ~crashed
    /\ vpc[v] = "lookup"
    /\ LET id == vCredentialId[v]
           credential == findById(id)
           e == IF ok THEN CredentialError(credential) ELSE LookupError
       IN
       IF e # Null
       THEN /\ vResult' = [vResult EXCEPT ![v] = Raw(e)]
            /\ vpc' = [vpc EXCEPT ![v] = "done"]
            /\ UNCHANGED <<testTransporter, handshake, transporter>>
       ELSE /\ testTransporter' = [testTransporter EXCEPT ![v] = createTransport(id, credential)]
            /\ transporter' = TransporterAfterVerify(id, credential)
            /\ handshake' = [handshake EXCEPT ![v] = "inflight"]
            /\ vpc' = [vpc EXCEPT ![v] = "verifying"]
            /\ UNCHANGED vResult
    /\ UNCHANGED <<variant, credentials, credentialRow, releases, tokenVars, httpVars, sends, callVars, attDone, dbVars, held, messageId,
                   pending, dispatch, used, built, extCalls, result, currentCredentialId,
                   buildLog, pc, vCredentialId, crashed>>

\* What the try / catch around `await testTransporter.verify()` gives.
VerifyOutcomeReturnsFalse(ok) == IF ok THEN VTrue ELSE VFalse
VerifyOutcome(ok) == IF ok THEN VTrue ELSE VerifyFailed(HandshakeError)

\* testTransporter.verify() settles.
VerifyDone(v, ok) ==
    /\ ~crashed
    /\ vpc[v] = "verifying"
    /\ handshake' = [handshake EXCEPT ![v] = IF ok THEN "ok" ELSE "failed"]
    /\ vResult' = [vResult EXCEPT ![v] = VerifyOutcome(ok)]
    /\ vpc' = [vpc EXCEPT ![v] = "done"]
    /\ UNCHANGED <<variant, credentials, credentialRow, releases, tokenVars, httpVars, sends, callVars, attDone, dbVars, held, messageId,
                   pending, dispatch, used, built, extCalls, result, cacheVars, pc,
                   vCredentialId, testTransporter, crashed>>

(***************************************************************************)
(* The HTTP layer: the application's middleware chain and the two routes   *)
(* POST /send and POST /verify.  Request r runs its sendEmail as call r    *)
(* and its verifyConnection as verifyConnection call r.  Sizes are in KiB. *)
(***************************************************************************)

\* .refine(attachments => !attachments || attachments.length <= 5)
MaxAttachmentCount == 5

\* Buffer.from(str, 'base64').length <= 10 * 1024 * 1024
ContentLimit == 10 * 1024

\* express.json({ limit: '10mb' })
BodyLimit == 10 * 1024

\* Buffer.from(str, 'base64').length for a base64 string of len characters.
DecodedLength(len) == (len \div 4) * 3

\* The base64 strings sent as attachment content, by length: about 1 MiB and
\* about 8 MiB of content, and just over 10 MiB of content.
ContentLengths == {1368, 10924, 13656}

\* The numbers of attachments sent.
AttachmentCounts == {0, MaxAttachments, MaxAttachmentCount, MaxAttachmentCount + 1}

\* The credential keys callers present, and the bcrypt hash stored for each
\* credential (column api_key).
Keys == {"k1", "k2"}
Hash(key) == [bcrypt |-> key]
StoredApiKey == [id \in KnownIds |-> Hash(IF id = "smtpB" THEN "k2" ELSE "k1")]

\* bcrypt's compare(apiKey, hash).
compare(key, hash) == hash = Hash(key)

\* The requests callers send.  A header or body field that is absent is
\* Undefined; service is set by serviceAuth.
SendRequests ==
    [route : {"send"}, apiKey : BOOLEAN, serviceName : BOOLEAN,
     credentialKey : Keys \cup {Undefined}, credentialId : CredentialIds \cup {Undefined},
     count : AttachmentCounts, contentLength : ContentLengths, wellFormed : BOOLEAN,
     service : {Undefined}]

VerifyRequests ==
    [route : {"verify"}, apiKey : BOOLEAN, serviceName : BOOLEAN,
     credentialKey : Keys \cup {Undefined}, credentialId : CredentialIds \cup {Undefined},
     count : {0}, contentLength : {0}, wellFormed : {TRUE},
     service : {Undefined}]

\* The length of the JSON body: the attachment contents and the rest.
BodyLength(q) == q.count * q.contentLength + 1

\* emailMessageSchema.parse(message) does not throw.
SchemaAccepts(q) ==
    /\ q.wellFormed
    /\ q.count > 0 => DecodedLength(q.contentLength) <= ContentLimit
    /\ q.count <= MaxAttachmentCount

\* res.status(status).json({ error }) sent by component `by`.
Reply(by, status, error, detail) ==
    [by |-> by, status |-> status, error |-> error, detail |-> detail]

\* The response is sent and the request is over: every res.status().json()
\* of the middleware and the handlers is returned, or is the last statement.
RespondAndContinue(r, reply) ==
    /\ response' = [response EXCEPT ![r] = reply]
    /\ responses' = [responses EXCEPT ![r] = @ + 1]
    /\ UNCHANGED rpc

Respond(r, reply) ==
    /\ response' = [response EXCEPT ![r] = reply]
    /\ responses' = [responses EXCEPT ![r] = @ + 1]
    /\ rpc' = [rpc EXCEPT ![r] = "responded"]

\* No EmailService method is called in this step.
NoServiceCall == UNCHANGED <<pc, callVars, verifyVars>>

\* A request arrives and passes the application's middleware: the rate
\* limiter, then express.json (a body over the limit goes to the error
\* handler), then the route's serviceAuth up to its axios.post.
Receive(r, q, limited) ==
    /\ ~crashed
    /\ rpc[r] = "none"
    /\ req' = [req EXCEPT ![r] = q]
    /\ IF limited
       THEN Respond(r, Reply("limiter", 429, "Too many requests, please try again later", Null))
       ELSE IF BodyLength(q) > BodyLimit
       THEN Respond(r, Reply("errorHandler", 500, "Internal server error", Null))
       ELSE IF ~q.apiKey \/ ~q.serviceName
       THEN Respond(r, Reply("serviceAuth", 401, "Missing authentication credentials", Null))
       ELSE /\ rpc' = [rpc EXCEPT ![r] = "serviceAuth"]
            /\ UNCHANGED <<response, responses>>
    /\ NoServiceCall
    /\ UNCHANGED nextCalls
    /\ UNCHANGED <<variant, credentials, credentialRow, releases, tokenVars, sends, attDone, dbVars, held, messageId, pending, dispatch,
                   used, built, extCalls, result, cacheVars, crashed>>

\* serviceAuth's axios.post to the auth service settles.  Accepted: next(),
\* and validateApiKey runs up to its await.
ServiceAuthDone(r, verdict) ==
    /\ ~crashed
    /\ rpc[r] = "serviceAuth"
    /\ LET q == req[r] IN
       IF verdict = "unauthorized"
       THEN /\ Respond(r, Reply("serviceAuth", 401, "Invalid authentication credentials", Null))
            /\ UNCHANGED <<req, nextCalls>>
       ELSE IF verdict # "accepted"
       THEN /\ Respond(r, Reply("serviceAuth", 500, "Authentication failed", Null))
            /\ UNCHANGED <<req, nextCalls>>
       ELSE /\ req' = [req EXCEPT ![r].service = "verified"]
            /\ nextCalls' = [nextCalls EXCEPT ![r] = Append(@, "serviceAuth")]
            /\ IF q.credentialKey = Undefined
               THEN Respond(r, Reply("validateApiKey", 401, "Credential API key is required", Null))
               ELSE IF q.credentialId = Undefined
               THEN Respond(r, Reply("validateApiKey", 400, "Credential ID is required", Null))
               ELSE /\ rpc' = [rpc EXCEPT ![r] = "validateApiKey"]
                    /\ UNCHANGED <<response, responses>>
    /\ NoServiceCall
    /\ UNCHANGED <<variant, credentials, credentialRow, releases, tokenVars, sends, attDone, dbVars, held, messageId, pending, dispatch,
                   used, built, extCalls, result, cacheVars, crashed>>

\* PostgresCredentialRepository.validateApiKey: no row, or compare.
KeyIsValidForAnyCredential(id, key) == id \in KnownIds
KeyIsValid(id, key) == id \in KnownIds /\ compare(key, StoredApiKey[id])

\* credentialRepository.validateApiKey settles.  Valid: next(), and the route
\* handler runs up to its await of sendEmail or verifyConnection.
ValidateApiKeyDone(r, ok) ==
    /\ ~crashed
    /\ rpc[r] = "validateApiKey"
    /\ LET q == req[r] IN
       IF ~ok
       THEN /\ Respond(r, Reply("validateApiKey", 500, "Failed to validate API key", DbError))
            /\ NoServiceCall
            /\ UNCHANGED nextCalls
            /\ UNCHANGED <<variant, credentials, credentialRow, releases, tokenVars, sends, attDone, dbVars, held, messageId, pending,
                           dispatch, used, built, extCalls, result, cacheVars, crashed>>
       ELSE IF ~KeyIsValid(q.credentialId, q.credentialKey)
       THEN /\ Respond(r, Reply("validateApiKey", 401, "Invalid credential API key", Null))
            /\ NoServiceCall
            /\ UNCHANGED nextCalls
            /\ UNCHANGED <<variant, credentials, credentialRow, releases, tokenVars, sends, attDone, dbVars, held, messageId, pending,
                           dispatch, used, built, extCalls, result, cacheVars, crashed>>
       ELSE IF q.route = "verify"
       THEN /\ VerifyCalled(r, q.credentialId)
            /\ rpc' = [rpc EXCEPT ![r] = "verifyConnection"]
            /\ UNCHANGED <<response, responses, pc, callVars>>
            /\ nextCalls' = [nextCalls EXCEPT ![r] = Append(@, "validateApiKey")]
            /\ UNCHANGED <<variant, credentials, credentialRow, releases, tokenVars, sends, attDone, dbVars, held, messageId, pending,
                           dispatch, used, built, extCalls, result, cacheVars, crashed>>
       ELSE IF ~SchemaAccepts(q)
       THEN /\ Respond(r, Reply("send", 400, "Invalid message format", Null))
            /\ NoServiceCall
            /\ nextCalls' = [nextCalls EXCEPT ![r] = Append(@, "validateApiKey")]
            /\ UNCHANGED <<variant, credentials, credentialRow, releases, tokenVars, sends, attDone, dbVars, held, messageId, pending,
                           dispatch, used, built, extCalls, result, cacheVars, crashed>>
       ELSE /\ Called(r, q.credentialId, q.count)
            /\ rpc' = [rpc EXCEPT ![r] = "sendEmail"]
            /\ UNCHANGED <<response, responses, verifyVars>>
            /\ nextCalls' = [nextCalls EXCEPT ![r] = Append(@, "validateApiKey")]
    /\ UNCHANGED req

\* error.message of what sendEmail threw.
ErrorMessage(e) == IF e.kind = "wrapped" THEN "Failed to send email" ELSE e.cause

\* What the /send handler answers once sendEmail has settled: every error
\* goes through the one catch block.
SendReplyAlwaysOk(e) == Reply("send", 200, Null, Null)
SendReply(e) ==
    IF e = Ok THEN Reply("send", 200, Null, Null)
    ELSE Reply("send", 500, ErrorMessage(e), e.cause)

\* The awaited sendEmail settles and the /send handler answers.
RespondSend(r) ==
    /\ ~crashed
    /\ rpc[r] = "sendEmail"
    /\ pc[r] = "done"
    /\ Respond(r, SendReply(result[r]))
    /\ NoServiceCall
    /\ UNCHANGED nextCalls
    /\ UNCHANGED <<variant, credentials, credentialRow, releases, tokenVars, sends, attDone, dbVars, held, messageId, pending, dispatch,
                   used, built, extCalls, result, cacheVars, crashed, req>>

\* What the /verify handler answers once verifyConnection has settled.
VerifyReply(e) ==
    IF e = VTrue THEN Reply("verify", 200, Null, Null)
    ELSE Reply("verify", 500,
               IF e.kind = "verifyFailed" THEN "Failed to verify email connection"
               ELSE e.cause,
               e.cause)

\* The awaited verifyConnection settles and the /verify handler answers.
RespondVerify(r) ==
    /\ ~crashed
    /\ rpc[r] = "verifyConnection"
    /\ vpc[r] = "done"
    /\ Respond(r, VerifyReply(vResult[r]))
    /\ NoServiceCall
    /\ UNCHANGED nextCalls
    /\ UNCHANGED <<variant, credentials, credentialRow, releases, tokenVars, sends, attDone, dbVars, held, messageId, pending, dispatch,
                   used, built, extCalls, result, cacheVars, crashed, req>>

(***************************************************************************)
(* The environment.                                                        *)
(***************************************************************************)

InFlight(c) == pc[c] \notin {"idle", "done", "crashed"}

\* A COMMIT the server may already have applied when the process dies.
CommitInFlight(c) == pc[c] \in {"commit", "commitFailed"} /\ tx[c] = "open" /\ ~lost[c]

\* The process dies with calls in flight.  The server ends every session and
\* discards its open transaction; a COMMIT in flight was applied or was not.
Crash(applied) ==
    /\ ~crashed
    /\ \E c \in Calls : InFlight(c)
    /\ \A c \in applied : CommitInFlight(c)
    /\ crashed' = TRUE
    /\ pc' = [c \in Calls |-> IF InFlight(c) THEN "crashed" ELSE pc[c]]
    /\ outgoing_messages' = outgoing_messages \cup UNION { txRows[c] : c \in applied }
    /\ message_attachments' = message_attachments \cup
            UNION { AttachmentRows(c) : c \in applied }
    /\ tx' = [c \in Calls |-> "none"]
    /\ txRows' = [c \in Calls |-> {}]
    /\ txAtts' = [c \in Calls |-> 0]
    /\ held' = [c \in Calls |-> FALSE]
    /\ commits' = [c \in Calls |-> IF c \in applied THEN commits[c] + 1 ELSE commits[c]]
    /\ UNCHANGED <<variant, credentials, credentialRow, releases, tokenVars, verifyVars, httpVars, sends, callVars, attDone, lost, dbFailed,
                   rowUpdates, failedAt, messageId, pending, dispatch, used, built,
                   extCalls, result, cacheVars>>

\* The credentials whose stored SMTP parameters an administrator changes
\* while the service runs, and the row after the change.
ChangedIds == {"smtpA"}
Changed(row) == [row EXCEPT !.host = "smtp.a2", !.password = "pwA2"]

\* The row of credential id is updated in the auth database (a new host and
\* a new password).  The service is not told.
CredentialUpdated(id) ==
    /\ credentials[id] = Credentials[id]
    /\ credentials' = [credentials EXCEPT ![id] = Changed(@)]
    /\ UNCHANGED <<variant, tokenVars, releases, credentialRow, verifyVars, httpVars, sends,
                   callVars, attDone, dbVars, held, messageId, pending, dispatch, used,
                   built, extCalls, result, cacheVars, pc, crashed>>

\* sendEmail called directly, by the callers in S.
Entry(S) ==
    \E c \in S, id \in CredentialIds, n \in 0..MaxAttachments : Invoke(c, id, n)

\* Steps common to both implementations, of the calls in S.
SharedSteps(S) ==
    \/ \E c \in S, ok \in BOOLEAN : Connect(c, ok)
    \/ \E c \in S, f \in Faults : Begin(c, f)
    \/ \E c \in S, f \in Faults : Insert(c, f)
    \/ \E c \in S, f \in Faults : Rollback(c, f)

\* Steps of the SMTP implementation, of the calls in S.
SmtpStepsOf(S) ==
    \/ \E c \in S, f \in Faults : InsertAttachment(c, f)
    \/ \E c \in S, ok \in BOOLEAN : FindById(c, ok)
    \/ \E c \in S, accepted \in BOOLEAN : SendMailDone(c, accepted)
    \/ \E c \in S, f \in Faults : UpdateSent(c, f)
    \/ \E c \in S, f \in CommitFaults : Commit(c, f)
    \/ \E c \in S, f \in Faults : UpdateFailed(c, f)
    \/ \E c \in S, f \in CommitFaults : CommitFailed(c, f)

\* Steps of either implementation, and the environment's.
Shared ==
    \/ Entry(Calls)
    \/ SharedSteps(Calls)
    \/ \E applied \in SUBSET Calls : Crash(applied)

SmtpSteps == SmtpStepsOf(Calls)

\* The steps of the verifyConnection calls in S.
VerifyStepsOf(S) ==
    \/ \E v \in S, ok \in BOOLEAN : VerifyFindById(v, ok)
    \/ \E v \in S, ok \in BOOLEAN : VerifyDone(v, ok)

\* verifyConnection called directly, and its steps.
VerifySteps ==
    \/ \E v \in Verifies, id \in CredentialIds : VerifyInvoke(v, id)
    \/ VerifyStepsOf(Verifies)

\* The verdicts of the auth service: 2xx, 401, anything else.
Verdicts == {"accepted", "unauthorized", "error"}

\* The steps of the middleware chain and the route handlers.
HttpSteps ==
    \/ \E r \in Requests, q \in SendRequests \cup VerifyRequests, limited \in BOOLEAN :
            Receive(r, q, limited)
    \/ \E r \in Requests, verdict \in Verdicts : ServiceAuthDone(r, verdict)
    \/ \E r \in Requests, ok \in BOOLEAN : ValidateApiKeyDone(r, ok)
    \/ \E r \in Requests : RespondSend(r)
    \/ \E r \in Requests : RespondVerify(r)

ApiSteps ==
    \/ \E c \in Calls, ok \in BOOLEAN : ApiFindById(c, ok)
    \/ \E c \in Calls, ok \in BOOLEAN : ApiToken(c, ok)
    \/ \E c \in Calls, ok \in BOOLEAN : ApiAccount(c, ok)
    \/ \E c \in Calls, ok \in BOOLEAN : ApiUpload(c, ok)
    \/ \E c \in Calls, accepted \in BOOLEAN : ApiSend(c, accepted)
    \/ \E c \in Calls, f \in Faults : ApiUpdateSent(c, f)
    \/ \E c \in Calls, f \in CommitFaults : ApiCommit(c, f)

Next == Shared \/ SmtpSteps \/ ApiSteps
NextSmtp == Shared \/ SmtpSteps
NextApi == Shared \/ ApiSteps

InitSmtp == Init /\ variant = "smtp"
InitApi == Init /\ variant = "api"

\* Either implementation deployed.
Spec == Init /\ [][Next]_vars
\* The SMTP implementation deployed.
SpecSmtp == InitSmtp /\ [][NextSmtp]_vars
\* The provider-API implementation deployed.
SpecApi == InitApi /\ [][NextApi]_vars

\* The one sendEmail call that runs next to the verifyConnection calls.
SendCall == {1}

\* The SMTP implementation: verifyConnection calls next to one sendEmail call.
NextVerify == Entry(SendCall) \/ SharedSteps(SendCall) \/ SmtpStepsOf(SendCall) \/ VerifySteps
SpecVerify == InitSmtp /\ [][NextVerify]_vars

\* The SMTP implementation while stored credentials are being changed.
NextStored ==
    \/ Entry(Calls) \/ SharedSteps(Calls) \/ SmtpStepsOf(Calls)
    \/ \E id \in ChangedIds : CredentialUpdated(id)
SpecStored == InitSmtp /\ [][NextStored]_vars

\* The SMTP implementation behind the router: every sendEmail and
\* verifyConnection call is made by a route handler.
NextHttp ==
    HttpSteps \/ SharedSteps(Requests) \/ SmtpStepsOf(Requests) \/ VerifyStepsOf(Requests)
SpecHttp == InitSmtp /\ [][NextHttp]_vars

(***************************************************************************)
(* Properties.                                                             *)
(***************************************************************************)

\* The visible rows of outgoing_messages that call c's INSERT created.
RowsOf(c) == { r \in outgoing_messages : r.id = c }

\* The visible rows of message_attachments that belong to call c's message.
AttachmentsOf(c) == { a \in message_attachments : a.message_id = c }

Returned(c) == pc[c] = "done"

\* C1: SMTP sendEmail, dispatch success.  Every call that has returned, whose
\* sendMail was accepted and none of whose database statements failed,
\* returned normally and left exactly one visible row, with status sent and
\* a sent_at; calls with identical arguments leave one such row each.
C1_SentCalls == { c \in Calls : Returned(c) /\ dispatch[c] = "accepted" /\ ~dbFailed[c] }

C1_DispatchSuccessLeavesOneSentRow ==
    /\ \A c \in C1_SentCalls :
          /\ result[c] = Ok
          /\ Cardinality(RowsOf(c)) = 1
          /\ \A r \in RowsOf(c) :
                /\ r.status = "sent"
                /\ r.sent_at
                /\ r.credential_id = credentialId[c]
    /\ Cardinality({ r \in outgoing_messages : r.status = "sent" /\ r.sent_at })
          >= Cardinality(C1_SentCalls)

\* Two calls with the same arguments have both succeeded: two sent rows.
C1_Witness ==
    /\ C1_SentCalls = Calls
    /\ \A c, d \in Calls : credentialId[c] = credentialId[d] /\ nAtt[c] = nAtt[d]
    /\ Cardinality({ r \in outgoing_messages : r.status = "sent" }) = MaxCalls

\* C2 as stated: whenever sendMail rejects, the call ends with exactly one
\* visible row, status failed with an error_message, and the caller gets the
\* wrapped error that carries the transport's error.
C2_Original ==
    \A c \in Calls :
        Returned(c) /\ dispatch[c] = "rejected" =>
            /\ Cardinality(RowsOf(c)) = 1
            /\ \A r \in RowsOf(c) : r.status = "failed" /\ r.error_message # Null
            /\ result[c] = Wrapped(SmtpError)

\* C2 (amended): whenever sendMail rejects and no database statement of the
\* call fails, the call ends with exactly one visible row, status failed,
\* error_message the transport's error, never sent_at, and the caller gets
\* the wrapped error carrying the transport's error; the outer ROLLBACK, which
\* has run by then, has not removed or changed the row.
C2_DispatchFailureLeavesOneFailedRow ==
    \A c \in Calls :
        Returned(c) /\ dispatch[c] = "rejected" /\ ~dbFailed[c] =>
            /\ Cardinality(RowsOf(c)) = 1
            /\ \A r \in RowsOf(c) :
                  /\ r.status = "failed"
                  /\ r.error_message = SmtpError
                  /\ ~r.sent_at
            /\ result[c] = Wrapped(SmtpError)

C2_Witness ==
    \E c \in Calls :
        /\ Returned(c) /\ dispatch[c] = "rejected" /\ ~dbFailed[c]
        /\ result[c] = Wrapped(SmtpError)
        /\ \E r \in RowsOf(c) : r.status = "failed"

\* C3: provider-API sendEmail, dispatch failure.  Whenever the send request
\* fails (and no database statement does), exactly one visible row with
\* status failed and the error text exists for the call afterwards.
C3_ApiDispatchFailureRecorded ==
    \A c \in Calls :
        Returned(c) /\ dispatch[c] = "rejected" /\ ~dbFailed[c] =>
            /\ Cardinality(RowsOf(c)) = 1
            /\ \A r \in RowsOf(c) : r.status = "failed" /\ r.error_message # Null

\* The fields of the stored credential that make SMTP resolution fail.
Unresolvable(id) ==
    \/ id \notin KnownIds
    \/ /\ id \in KnownIds
       /\ \/ Credentials[id].type # "email"
          \/ Credentials[id].host = Null
          \/ Credentials[id].port = 0
          \/ Credentials[id].secure = Undefined

C5_ApiRejectsNonEmailCredential ==
    \A c \in Calls :
        credentialId[c] \in KnownIds /\ Credentials[credentialId[c]].type # "email" =>
            /\ extCalls[c] = 0
            /\ RowsOf(c) = {}
            /\ Returned(c) =>
                  \/ result[c] = Wrapped(BadType)
                  \/ result[c].cause \in {ConnectError, DbError, LookupError}

\* C6: ordering.  In both implementations a call that has started an external
\* network call (token exchange, account lookup, upload, dispatch) has
\* completed the INSERT of its pending row before.
C6_PendingInsertBeforeExternalCall ==
    \A c \in Calls : extCalls[c] > 0 => messageId[c] = c

\* A dispatch is in flight and the pending row sits in the open transaction.
C6_Witness ==
    \E c \in Calls :
        /\ dispatch[c] = "inflight"
        /\ extCalls[c] > 0
        /\ PendingRow(c) \in txRows[c]

\* C7 as stated: after a crash with the dispatch in flight a pending row of
\* that attempt is visible in outgoing_messages.
C7_Original ==
    \A c \in Calls :
        pc[c] = "crashed" /\ dispatch[c] = "inflight" =>
            \E r \in RowsOf(c) : r.status = "pending"

\* The first statement after the dispatch finds the connection gone.
C7_LostMidDispatch(c) ==
    /\ \/ pc[c] = "updSent"
       \/ pc[c] = "updFailed" /\ tx[c] = "open"
    /\ ~lost[c]
    /\ lost'[c]

\* C7 (amended): if the process crashes, or the database connection is lost,
\* after the pending row was inserted and while the dispatch is in flight, no
\* row of that attempt is visible afterwards: the pending row existed only
\* inside the open transaction, which the server discards.
C7_CrashMidDispatchLeavesNoRow ==
    /\ [](\A c \in Calls :
            pc[c] = "crashed" /\ dispatch[c] = "inflight" =>
                RowsOf(c) = {} /\ txRows[c] = {})
    /\ [][\A c \in Calls :
            C7_LostMidDispatch(c) =>
                /\ RowsOf(c)' = {}
                /\ txRows'[c] = {}]_vars
    /\ [][\A c \in Calls :
            lost[c] /\ RowsOf(c) = {} => RowsOf(c)' = {}]_vars

\* The process crashed while a dispatch was in flight whose pending row had
\* been inserted.
C7_Witness ==
    \E c \in Calls :
        /\ pc[c] = "crashed"
        /\ dispatch[c] = "inflight"
        /\ messageId[c] = c
        /\ RowsOf(c) = {}

\* What both versions of C8 say of the visible rows: sent only for an
\* accepted dispatch, failed only for a rejected one.
C8_RowsMatchOutcome ==
    \A r \in outgoing_messages :
        /\ r.status = "sent" => dispatch[r.id] = "accepted"
        /\ r.status = "failed" => dispatch[r.id] = "rejected"

\* C8 as stated: rows match the outcome, and every call that invoked the
\* dispatch leaves a committed row.
C8_Original ==
    /\ C8_RowsMatchOutcome
    /\ \A c \in Calls :
          Returned(c) /\ dispatch[c] # "none" => RowsOf(c) # {}

\* C8 (amended): every visible row reflects the outcome of its call's
\* dispatch (sent only if accepted, failed only if rejected), and every call
\* that invoked the dispatch and returned with no database statement having
\* failed leaves a committed row with the matching terminal status.
C8_AccurateRecording ==
    /\ C8_RowsMatchOutcome
    /\ \A c \in Calls :
          Returned(c) /\ dispatch[c] # "none" /\ ~dbFailed[c] =>
              \E r \in RowsOf(c) :
                  r.status = IF dispatch[c] = "accepted" THEN "sent" ELSE "failed"

\* One call recorded sent and one recorded failed.
C8_Witness ==
    /\ \E r \in outgoing_messages : r.status = "sent" /\ dispatch[r.id] = "accepted"
    /\ \E r \in outgoing_messages : r.status = "failed" /\ dispatch[r.id] = "rejected"

\* The call resolves its transport and dispatches in this step.
C9_Resolves(c) == dispatch[c] = "none" /\ dispatch'[c] = "inflight"

\* C9: transport reuse.  The cache holds at most one transport, together
\* with the credential id it was built for.  A call that finds its
\* credential id cached constructs nothing and dispatches through the cached
\* transport, also after a failed dispatch; a call that finds another id (or
\* none) constructs one transport and replaces the cache.  So two
\* constructions in a row are never for the same credential id.
C9_TransportReuse ==
    /\ [](/\ (transporter = Nil) = (currentCredentialId = Null)
          /\ transporter # Nil => transporter.credentialId = currentCredentialId
          /\ \A i \in 1..(Len(buildLog) - 1) : buildLog[i] # buildLog[i + 1]
          /\ Len(buildLog) = Cardinality({ c \in Calls : built[c] }))
    /\ [][\A c \in Calls :
            C9_Resolves(c) =>
                IF currentCredentialId = credentialId[c]
                THEN /\ transporter' = transporter
                     /\ buildLog' = buildLog
                     /\ used'[c] = transporter
                     /\ ~built'[c]
                ELSE /\ buildLog' = Append(buildLog, credentialId[c])
                     /\ transporter'.credentialId = credentialId[c]
                     /\ currentCredentialId' = credentialId[c]
                     /\ used'[c] = transporter'
                     /\ built'[c]]_vars

\* The first call built the transport and its dispatch failed; the second
\* call, same credential id, dispatches through it without building.
C9_Witness ==
    \E c, d \in Calls :
        /\ c # d
        /\ Returned(c) /\ dispatch[c] = "rejected" /\ built[c]
        /\ credentialId[d] = credentialId[c]
        /\ dispatch[d] = "inflight" /\ ~built[d]
        /\ used[d] = used[c]
        /\ Len(buildLog) = 1

\* C10: transport isolation.  In every interleaving each message is
\* dispatched through a transport constructed for the credential id of its
\* own call, and every dispatch goes through some transport.
C10_TransportIsolation ==
    \A c \in Calls :
        /\ dispatch[c] # "none" => used[c] # Nil
        /\ used[c] # Nil => used[c].credentialId = credentialId[c]

\* Two calls with different credential ids have their dispatches in flight
\* at once; the second replaced the transport the first was dispatched on.
C10_Witness ==
    \E c, d \in Calls :
        /\ pc[c] = "sending" /\ pc[d] = "sending"
        /\ credentialId[c] # credentialId[d]
        /\ built[c] /\ built[d]
        /\ transporter = used[d]
        /\ Len(buildLog) = 2

\* The awaits of sendEmail that lie after credential resolution and transport
\* setup (SMTP: the transporter block; provider API: token, account, uploads).
C15_PastSetup ==
    IF variant = "smtp"
    THEN {"sending", "updSent", "commit", "updFailed", "commitFailed"}
    ELSE {"send", "updSent", "commit"}

\* C15: no retry.  Every sendEmail invocation issues at most one dispatch
\* call (SMTP sendMail or the provider's send request), and exactly one once
\* it is past credential resolution and transport setup; a call whose
\* dispatch was rejected, and a call that returned normally, has issued
\* exactly one, and a call that never reached the dispatch none.
C15_NoRetry ==
    \A c \in Calls :
        /\ sends[c] <= 1
        /\ (sends[c] = 0) = (dispatch[c] = "none")
        /\ pc[c] \in C15_PastSetup => sends[c] = 1
        /\ dispatch[c] = "rejected" => sends[c] = 1
        /\ result[c] = Ok => sends[c] = 1

\* A call whose only dispatch was rejected has returned with the error.
C15_Witness ==
    \E c \in Calls :
        /\ Returned(c)
        /\ dispatch[c] = "rejected"
        /\ sends[c] = 1
        /\ result[c] # Ok

\* C16 as stated: every execution that reaches the dispatch step updates the
\* status of the call's row exactly once.
C16_Original ==
    \A c \in Calls :
        Returned(c) /\ dispatch[c] # "none" => rowUpdates[c] = 1

\* The status of call c's row is changed by this step.
C16_StatusChanges(c) == rowUpdates'[c] # rowUpdates[c]

\* C16 (amended): the status of the call's row is updated at most once in
\* every execution, from pending to sent or to failed, inside the open
\* transaction; exactly once in every execution that reaches the dispatch
\* step and returns with no database statement having failed.  A row is
\* visible only after that one update, and is never changed once visible.
C16_SingleTerminalMutation ==
    /\ [](\A c \in Calls :
            /\ rowUpdates[c] <= 1
            /\ Returned(c) /\ dispatch[c] # "none" /\ ~dbFailed[c] => rowUpdates[c] = 1
            /\ dispatch[c] \in {"none", "inflight"} => rowUpdates[c] = 0
            /\ \A r \in txRows[c] : (r.status = "pending") = (rowUpdates[c] = 0)
            /\ \A r \in RowsOf(c) :
                  r.status \in {"sent", "failed"} /\ rowUpdates[c] = 1)
    /\ [][\A c \in Calls :
            C16_StatusChanges(c) =>
                /\ tx[c] = "open"
                /\ rowUpdates[c] = 0
                /\ \A r \in txRows[c] : r.status = "pending"
                /\ \A r \in txRows'[c] : r.status \in {"sent", "failed"}]_vars
    /\ [][\A r \in outgoing_messages : r \in outgoing_messages']_vars

\* The UPDATE to sent succeeded, the COMMIT was rejected, and the inner
\* catch's UPDATE to failed ran without finding the row: one update.
C16_Witness ==
    \E c \in Calls :
        /\ Returned(c)
        /\ failedAt[c] = [stage |-> "commit", fault |-> "err"]
        /\ rowUpdates[c] = 1
        /\ result[c] = Wrapped(DbError)
        /\ RowsOf(c) = {}

\* C17: provider-API sendEmail, failure before the send request.  If the
\* token exchange, the account lookup or an attachment upload fails, the send
\* endpoint is never called, no row of the call is visible, and the caller
\* receives the wrapped error.
C17_NoPartialAttachmentSend ==
    \A c \in Calls :
        pending[c] \in {TokenError, AccountError, UploadError} =>
            /\ sends[c] = 0
            /\ dispatch[c] = "none"
            /\ RowsOf(c) = {}
            /\ Returned(c) => result[c] = Wrapped(pending[c])

\* What C17 says apart from the shape of the error: no send request, no row,
\* and the call fails.
C17_NoSendNoRow ==
    \A c \in Calls :
        pending[c] \in {TokenError, AccountError, UploadError} =>
            /\ sends[c] = 0
            /\ dispatch[c] = "none"
            /\ RowsOf(c) = {}
            /\ txRows[c] # {} => pc[c] = "rollback"
            /\ Returned(c) => result[c] \in {Wrapped(pending[c]), Raw(DbError)}

\* The statements of sendEmail between the pending-row insert and the end of
\* the success path's COMMIT.
C18_Stages == {"attach", "updSent", "commit"}

\* C18 as stated: whenever the attachment insert, the UPDATE to sent or the
\* COMMIT fails, no row of the call is visible afterwards and the caller
\* gets an error.
C18_Original ==
    \A c \in Calls :
        Returned(c) /\ failedAt[c].stage \in C18_Stages =>
            /\ RowsOf(c) = {}
            /\ AttachmentsOf(c) = {}
            /\ result[c] # Ok

\* C18 (amended): whenever the attachment insert, the UPDATE to sent or the
\* COMMIT fails without the server having applied the COMMIT, the
\* transaction is over, no row of the call is visible, and the caller gets an
\* error.  When the connection is lost after the server applied the COMMIT,
\* the caller gets an error as well, and the row is visible with status sent.
C18_StorageFailureRollsBack ==
    \A c \in Calls :
        Returned(c) /\ failedAt[c].stage \in C18_Stages =>
            /\ result[c] # Ok
            /\ tx[c] = "none" /\ txRows[c] = {} /\ txAtts[c] = 0
            /\ IF failedAt[c].fault = "lostApplied"
               THEN /\ Cardinality(RowsOf(c)) = 1
                    /\ \A r \in RowsOf(c) : r.status = "sent"
               ELSE /\ RowsOf(c) = {}
                    /\ AttachmentsOf(c) = {}

\* The message row and an attachment row were written, the sendMail was
\* accepted, then the UPDATE to sent was rejected: rolled back, error thrown.
C18_Witness ==
    \E c \in Calls :
        /\ Returned(c)
        /\ failedAt[c] = [stage |-> "updSent", fault |-> "err"]
        /\ nAtt[c] > 0 /\ attDone[c] = nAtt[c]
        /\ dispatch[c] = "accepted"
        /\ RowsOf(c) = {} /\ AttachmentsOf(c) = {}
        /\ result[c] = Wrapped(DbError)

\* C19: error propagation.  A call returns normally only if no step of it
\* failed, and every failure reaches the caller as an error wrapped by the
\* outer catch ("Failed to send email: ..."), never as a raw error.
C19_ErrorsReachCallerWrapped ==
    \A c \in Calls :
        Returned(c) =>
            /\ result[c] = Ok =>
                  /\ ~dbFailed[c]
                  /\ dispatch[c] = "accepted"
                  /\ pending[c] = Null
            /\ result[c] # Ok => result[c].kind = "wrapped"

\* What the code does keep of C19: no failure is swallowed.
C19_NothingSwallowed ==
    \A c \in Calls :
        Returned(c) /\ result[c] = Ok =>
            ~dbFailed[c] /\ dispatch[c] = "accepted" /\ pending[c] = Null

\* A step of some verifyConnection call.
C11_VerifyStep == \E v \in Verifies : vpc'[v] # vpc[v]

C14_Authenticated(r) ==
    /\ req[r] # Nil
    /\ req[r].service = "verified"
    /\ req[r].credentialId \in KnownIds
    /\ compare(req[r].credentialKey, StoredApiKey[req[r].credentialId])

\* C14: authentication gating on POST /send and POST /verify.  sendEmail and
\* verifyConnection are invoked only for requests for which, in this order,
\* the auth service accepted the service token and then the credential key
\* matched the key stored for the credentialId; a request failing either
\* check, a credentialId that does not exist included, never reaches the
\* service and writes no outgoing_messages row.
C14_AuthenticationGating ==
    \A r \in Requests :
        /\ rpc[r] = "validateApiKey" => req[r].service = "verified"
        /\ rpc[r] \in {"sendEmail", "verifyConnection"} => C14_Authenticated(r)
        /\ ~C14_Authenticated(r) =>
              /\ pc[r] = "idle"
              /\ vpc[r] = "idle"
              /\ messageId[r] = 0
              /\ txRows[r] = {}
              /\ RowsOf(r) = {}

\* An authenticated request was served and its row is stored, after which
\* the handler answered 200.
C14_Witness ==
    \E r \in Requests :
        /\ C14_Authenticated(r)
        /\ rpc[r] = "responded"
        /\ response[r] = Reply("send", 200, Null, Null)
        /\ \E row \in RowsOf(r) : row.status = "sent"

\* The message of the request has more than 5 attachments, or an attachment
\* whose content is over 10 MiB.
C13_OverLimit(q) ==
    /\ q.route = "send"
    /\ \/ q.count > MaxAttachmentCount
       \/ q.count > 0 /\ DecodedLength(q.contentLength) > ContentLimit

\* The request carries both service headers and the key stored for its
\* credentialId.
C13_Credentialed(q) ==
    /\ q.apiKey /\ q.serviceName
    /\ q.credentialId \in KnownIds
    /\ compare(q.credentialKey, StoredApiKey[q.credentialId])

\* C13: boundary validation on POST /send.  A request whose message has more
\* than 5 attachments, or any attachment whose content exceeds 10 MiB, is
\* answered with a 400 (a request with valid credentials, unless the rate
\* limiter or the auth service turned it away first) and never reaches
\* sendEmail, so it produces no database row.
C13_BoundaryValidation ==
    \A r \in Requests :
        req[r] # Nil /\ C13_OverLimit(req[r]) =>
            /\ pc[r] = "idle"
            /\ txRows[r] = {}
            /\ RowsOf(r) = {}
            /\ rpc[r] = "responded" /\ C13_Credentialed(req[r])
                  /\ response[r].by \notin {"limiter", "serviceAuth", "validateApiKey"} =>
                  response[r].status = 400

\* The part of C13 that holds: such a request never reaches sendEmail and
\* writes no row, and the route handler, when it is reached, answers 400.
C13_NeverReachesSendEmail ==
    \A r \in Requests :
        req[r] # Nil /\ C13_OverLimit(req[r]) =>
            /\ pc[r] = "idle"
            /\ txRows[r] = {}
            /\ RowsOf(r) = {}
            /\ rpc[r] = "responded" /\ response[r].by = "send" => response[r].status = 400

\* sendEmail threw before it dispatched anything, on a credential error, and
\* no row is stored.
C20_NeverAttempted(r) ==
    /\ pc[r] = "done"
    /\ dispatch[r] = "none"
    /\ result[r] \in {Wrapped(NotFound), Wrapped(BadType), Wrapped(Incomplete)}
    /\ RowsOf(r) = {}

\* sendEmail dispatched, the transport rejected, and the row is stored failed.
C20_AttemptedAndFailed(r) ==
    /\ pc[r] = "done"
    /\ dispatch[r] = "rejected"
    /\ \E row \in RowsOf(r) : row.status = "failed"

\* C20: distinguishable failure signal.  The failure a caller of POST /send
\* receives for a send that was never attempted (credential not found, wrong
\* type, incomplete; no row stored) is 4xx-class; the failure for a send that
\* was attempted and failed (row stored failed) is not, and echoes the error
\* detail.
C20_DistinguishableFailure ==
    \A r \in Requests :
        rpc[r] = "responded" /\ response[r].by = "send" =>
            /\ C20_NeverAttempted(r) => response[r].status \in 400..499
            /\ C20_AttemptedAndFailed(r) =>
                  /\ response[r].status \in 500..599
                  /\ response[r].detail = SmtpError

\* The part of C20 that holds: a send that was attempted and failed is
\* answered 500, with the transport's error detail unless a database
\* statement of the call failed as well.
C20_AttemptedFailureEchoed ==
    \A r \in Requests :
        rpc[r] = "responded" /\ response[r].by = "send" /\ C20_AttemptedAndFailed(r) =>
            /\ response[r].status = 500
            /\ failedAt[r] = NoFault => response[r].detail = SmtpError

(***************************************************************************)
(* The provider-API path: tokens.                                          *)
(***************************************************************************)

\* C21: no token caching on the provider-API path.  Every sendEmail call that
\* resolves its credential makes its own token exchange and then its own
\* account lookup before any upload or send request: while it uploads or
\* sends, and after, the token it holds is the one issued to its own exchange
\* and the account id is the one its own lookup got with that token; it never
\* holds a token or account id of another call.
C21_NoTokenCaching ==
    \A c \in Calls :
        /\ accessToken[c] \in {Nil, IssuedToken(c)}
        /\ accountId[c] \in {Nil, [lookup |-> c, bearer |-> IssuedToken(c)]}
        /\ pc[c] \in {"account", "upload", "send"} \/ dispatch[c] # "none" =>
              /\ accessToken[c] = IssuedToken(c)
              /\ extCalls[c] >= 1
        /\ pc[c] \in {"upload", "send"} \/ dispatch[c] # "none" =>
              /\ accountId[c] = [lookup |-> c, bearer |-> IssuedToken(c)]
              /\ extCalls[c] >= 2
        /\ pc[c] \in {"idle", "connect", "begin", "insert", "lookup", "token"} =>
              accessToken[c] = Nil /\ accountId[c] = Nil

\* Two calls with the same credential have both been accepted by the
\* provider, each with the token of its own exchange.
C21_Witness ==
    /\ variant = "api"
    /\ \A c \in Calls :
          /\ pc[c] = "done"
          /\ credentialId[c] = "smtpA"
          /\ dispatch[c] = "accepted"
          /\ accessToken[c] = IssuedToken(c)
    /\ accessToken[1] # accessToken[2]

(***************************************************************************)
(* Concurrent calls.                                                       *)
(***************************************************************************)

\* The step is one of call c's own: one of its awaits has settled.
C22_StepOf(c) == ~crashed' /\ (pc'[c] # pc[c] \/ attDone'[c] # attDone[c])

\* The visible rows stand for the transactions the server committed: a call
\* has a visible row exactly when a transaction of its client was committed,
\* and never more than one.
C22_RowsMatchCommits ==
    /\ \A c \in Calls :
          /\ commits[c] <= 1
          /\ Cardinality(RowsOf(c)) = commits[c]
    /\ Cardinality(outgoing_messages) = Cardinality({ c \in Calls : commits[c] > 0 })
    /\ \A r \in outgoing_messages : r.id \in Calls

\* C22: per-call transaction isolation.  In every interleaving of concurrent
\* sendEmail calls, a step of one call (its UPDATE, COMMIT and ROLLBACK
\* included) acts on its own client and its own row only: the transaction,
\* the connection, the uncommitted and the visible rows of every other call
\* stay as they are; and the number of visible rows equals the number of
\* calls whose transaction was committed.
C22_TransactionIsolation ==
    /\ []C22_RowsMatchCommits
    /\ [][\A c \in Calls : C22_StepOf(c) =>
            \A d \in Calls \ {c} :
                /\ tx'[d] = tx[d]
                /\ lost'[d] = lost[d]
                /\ held'[d] = held[d]
                /\ txRows'[d] = txRows[d]
                /\ txAtts'[d] = txAtts[d]
                /\ commits'[d] = commits[d]
                /\ { r \in outgoing_messages' : r.id = d } = RowsOf(d)
                /\ { a \in message_attachments' : a.message_id = d } = AttachmentsOf(d)]_vars

\* One call was rolled back after a failed statement and left nothing, the
\* other committed its row as sent: one visible row.
C22_Witness ==
    \E c \in Calls, d \in Calls :
        /\ c # d
        /\ pc[c] = "done" /\ result[c] = Ok /\ commits[c] = 1
        /\ \E r \in RowsOf(c) : r.status = "sent"
        /\ pc[d] = "done" /\ failedAt[d] # NoFault /\ messageId[d] = d
        /\ commits[d] = 0 /\ RowsOf(d) = {}
        /\ Cardinality(outgoing_messages) = 1

(***************************************************************************)
(* The pooled client.                                                      *)
(***************************************************************************)

\* The awaits at which a statement of the call is in flight on its client.
C23_StatementStages ==
    {"begin", "insert", "attach", "updSent", "commit", "updFailed", "commitFailed",
     "rollback"}

\* C23: connection lifecycle.  Every client sendEmail acquires from the pool
\* is released exactly once on every path on which the call finishes
\* (success, dispatch failure, failure before dispatch, failing COMMIT or
\* ROLLBACK); no statement is issued on it after its release; and once every
\* call made has finished, no client is checked out.
C23_ConnectionLifecycle ==
    /\ \A c \in Calls :
          /\ releases[c] <= 1
          /\ held[c] => releases[c] = 0
          /\ pc[c] \in C23_StatementStages => held[c] /\ releases[c] = 0
          /\ pc[c] = "done" =>
                /\ ~held[c]
                /\ releases[c] = IF result[c] = Raw(ConnectError) THEN 0 ELSE 1
          /\ pc[c] \in {"idle", "connect"} => ~held[c] /\ releases[c] = 0
    /\ (\A c \in Calls : pc[c] \in {"idle", "done"}) => \A c \in Calls : ~held[c]

\* One call finished with its ROLLBACK rejected, the other finished normally;
\* each released its client once and none is checked out.
C23_Witness ==
    \E c \in Calls, d \in Calls :
        /\ c # d
        /\ pc[c] = "done" /\ failedAt[c].stage = "rollback" /\ result[c] = Raw(DbError)
        /\ pc[d] = "done" /\ result[d] = Ok
        /\ releases[c] = 1 /\ releases[d] = 1
        /\ ~held[c] /\ ~held[d]

(***************************************************************************)
(* The cached transport and the stored credential.                         *)
(***************************************************************************)

\* The transport has the parameters of the credential record.
C24_Matches(transport, row) ==
    /\ transport.host = row.host
    /\ transport.port = row.port
    /\ transport.secure = row.secure
    /\ transport.user = row.username
    /\ transport.pass = row.password

\* C24: stale transport parameters.  Every SMTP dispatch goes through a
\* transport whose host, port, secure flag, username and password equal
\* those of the credential record the findById of that same sendEmail call
\* returned, also when the stored parameters of the credential were changed
\* between two calls that use the same credential id.
C24_TransportMatchesLookup ==
    \A c \in Calls :
        dispatch[c] # "none" /\ used[c] # Nil => C24_Matches(used[c], credentialRow[c])

\* The part of C24 that holds: a transport the call has built itself has the
\* parameters of the record the call looked up.
C24_BuiltTransportMatchesLookup ==
    \A c \in Calls :
        dispatch[c] # "none" /\ built[c] => C24_Matches(used[c], credentialRow[c])

(***************************************************************************)
(* Pending rows.                                                           *)
(***************************************************************************)

\* C25: no committed pending row.  In every reachable state no visible row of
\* outgoing_messages has status pending; and whenever sendEmail has issued a
\* COMMIT on an open transaction, the UPDATE of the call's row to sent or
\* failed has been made in that transaction before.
C25_NoCommittedPendingRow ==
    /\ \A r \in outgoing_messages : r.status \in {"sent", "failed"}
    /\ \A c \in Calls :
          pc[c] \in {"commit", "commitFailed"} /\ tx[c] = "open" =>
              /\ rowUpdates[c] = 1
              /\ txRows[c] # {}
              /\ \A r \in txRows[c] : r.status \in {"sent", "failed"}

\* Both terminal states are visible: one call's transaction committed its row
\* as sent, the other's as failed.
C25_Witness ==
    \E c \in Calls, d \in Calls :
        /\ commits[c] = 1 /\ commits[d] = 1
        /\ \E r \in RowsOf(c) : r.status = "sent"
        /\ \E r \in RowsOf(d) : r.status = "failed"
        /\ pc[c] = "done" /\ pc[d] = "done"

(***************************************************************************)
(* The responses of the router.                                            *)
(***************************************************************************)

\* C26: success response soundness.  POST /send answers 200 only if the
\* transport accepted the message and the call's row was committed with
\* status sent; every other outcome of sendEmail gets a response that is
\* not 200.
C26_SuccessResponseSound ==
    \A r \in Requests :
        rpc[r] = "responded" /\ req[r].route = "send" =>
            /\ response[r].status = 200 =>
                  /\ response[r].by = "send"
                  /\ pc[r] = "done" /\ result[r] = Ok
                  /\ dispatch[r] = "accepted"
                  /\ commits[r] = 1
                  /\ \E row \in RowsOf(r) : row.status = "sent" /\ row.sent_at
            /\ pc[r] = "done" /\ result[r] # Ok => response[r].status # 200
            /\ pc[r] # "done" => response[r].status # 200

\* The transport accepted the message, the row was committed as sent and
\* the caller got 200; the client was released.
C26_Witness ==
    \E r \in Requests :
        /\ rpc[r] = "responded"
        /\ response[r].status = 200 /\ response[r].by = "send"
        /\ dispatch[r] = "accepted"
        /\ commits[r] = 1 /\ releases[r] = 1
        /\ \E row \in RowsOf(r) : row.status = "sent"

\* The middleware of the two routes, in the order they are mounted.
C27_Chain == <<"serviceAuth", "validateApiKey">>

\* The middleware that have called next() when component `by` answers.
C27_NextBefore(by) ==
    IF by \in {"limiter", "errorHandler", "serviceAuth"} THEN <<>>
    ELSE IF by = "validateApiKey" THEN <<"serviceAuth">>
    ELSE C27_Chain

\* C27: single response per request.  For every request to POST /send or
\* POST /verify, across serviceAuth, validateApiKey and the route handler,
\* no more than one response is sent, and exactly one once the chain has
\* ended; each middleware calls next() at most once, in the mounted order and
\* only when its check succeeded, and none both sends a response and calls
\* next().
C27_SingleResponse ==
    \A r \in Requests :
        /\ responses[r] <= 1
        /\ (responses[r] = 1) = (rpc[r] = "responded")
        /\ (responses[r] = 1) = (response[r] # Nil)
        /\ nextCalls[r] \in {<<>>, <<"serviceAuth">>, C27_Chain}
        /\ Len(nextCalls[r]) >= 1 => req[r].service = "verified"
        /\ Len(nextCalls[r]) = 2 =>
              /\ req[r].credentialId \in KnownIds
              /\ compare(req[r].credentialKey, StoredApiKey[req[r].credentialId])
        /\ rpc[r] = "serviceAuth" => nextCalls[r] = <<>>
        /\ rpc[r] = "validateApiKey" => nextCalls[r] = <<"serviceAuth">>
        /\ rpc[r] \in {"sendEmail", "verifyConnection"} => nextCalls[r] = C27_Chain
        /\ response[r] # Nil => nextCalls[r] = C27_NextBefore(response[r].by)

\* serviceAuth called next() and validateApiKey answered 401 for a wrong
\* credential key: one response, one next().
C27_Witness ==
    \E r \in Requests :
        /\ rpc[r] = "responded"
        /\ responses[r] = 1
        /\ response[r] = Reply("validateApiKey", 401, "Invalid credential API key", Null)
        /\ nextCalls[r] = <<"serviceAuth">>

====
